---- MODULE Spec2Model ----
(***************************************************************************)
(* Verification model of the "yolo" deployment tool                        *)
(* (src/Lib/site-packages/yolo): the CloudFormation waiter, the stack      *)
(* create/update/recreate workflow behind `yolo deploy-infra`, and the     *)
(* Lambda deployment behind `yolo deploy-lambda`.                          *)
(*                                                                         *)
(* AWS is the environment.  Every AWS API call of the client is one atomic *)
(* step; between two calls CloudFormation may move the stack along its     *)
(* life cycle and another operator may act on it.                          *)
(*                                                                         *)
(* Strings the code inspects with `in` are kept as what the test reads: a  *)
(* stack status is its sequence of "_"-separated words, and the text of a  *)
(* botocore ClientError is the set of phrases that occur in it.  A stack's  *)
(* template and parameters are kept relative to the running invocation:    *)
(* `stale` says that they differ from the ones the invocation deploys.     *)
(***************************************************************************)
EXTENDS Integers, Sequences, FiniteSets, TLC

\* waiter.py:45
MAX_TRIES == 120

None == "None"

(***************************************************************************)
(* CloudFormation stack statuses.                                          *)
(***************************************************************************)
CREATE_IN_PROGRESS == <<"CREATE", "IN", "PROGRESS">>
CREATE_COMPLETE == <<"CREATE", "COMPLETE">>
CREATE_FAILED == <<"CREATE", "FAILED">>
ROLLBACK_IN_PROGRESS == <<"ROLLBACK", "IN", "PROGRESS">>
ROLLBACK_COMPLETE == <<"ROLLBACK", "COMPLETE">>
UPDATE_IN_PROGRESS == <<"UPDATE", "IN", "PROGRESS">>
UPDATE_CLEANUP == <<"UPDATE", "COMPLETE", "CLEANUP", "IN", "PROGRESS">>
UPDATE_COMPLETE == <<"UPDATE", "COMPLETE">>
UPDATE_ROLLBACK_IN_PROGRESS == <<"UPDATE", "ROLLBACK", "IN", "PROGRESS">>
UPDATE_ROLLBACK_COMPLETE == <<"UPDATE", "ROLLBACK", "COMPLETE">>
DELETE_IN_PROGRESS == <<"DELETE", "IN", "PROGRESS">>
DELETE_COMPLETE == <<"DELETE", "COMPLETE">>
DELETE_FAILED == <<"DELETE", "FAILED">>

\* `sub in s` for strings, on word sequences: sub occurs contiguously in s.
Contains(s, sub) ==
    \E i \in 1..(Len(s) - Len(sub) + 1) : SubSeq(s, i, i + Len(sub) - 1) = sub

\* The life cycle CloudFormation drives on its own.
StatusSucc(s) ==
    CASE s = CREATE_IN_PROGRESS -> {CREATE_COMPLETE, CREATE_FAILED, ROLLBACK_IN_PROGRESS}
      [] s = ROLLBACK_IN_PROGRESS -> {ROLLBACK_COMPLETE}
      [] s = UPDATE_IN_PROGRESS -> {UPDATE_CLEANUP, UPDATE_ROLLBACK_IN_PROGRESS}
      [] s = UPDATE_CLEANUP -> {UPDATE_COMPLETE}
      [] s = UPDATE_ROLLBACK_IN_PROGRESS -> {UPDATE_ROLLBACK_COMPLETE}
      [] s = DELETE_IN_PROGRESS -> {DELETE_COMPLETE, DELETE_FAILED}
      [] OTHER -> {}

Updatable == {CREATE_COMPLETE, UPDATE_COMPLETE, UPDATE_ROLLBACK_COMPLETE}

(***************************************************************************)
(* Texts of botocore ClientErrors, as the phrases the code looks for.      *)
(***************************************************************************)
ErrNotExist == {"ValidationError", "does not exist"}
ErrNoUpdates == {"ValidationError", "No updates are to be performed"}
ErrTermProt == {"ValidationError", "TerminationProtection is enabled"}
ErrValidation == {"ValidationError"}
ErrAlreadyExists == {"AlreadyExistsException"}
ErrThrottling == {"Throttling"}

NoStack == [exists |-> FALSE, status |-> <<>>, termProt |-> FALSE,
            protTag |-> FALSE, stale |-> FALSE]

NoDetails == [exists |-> FALSE, termProt |-> FALSE, protTag |-> FALSE]

NoArgs == [stage |-> None, account |-> None, dry_run |-> FALSE,
           asynchronous |-> FALSE, recreate |-> FALSE]

NoLocals == [protected |-> FALSE, recreate |-> FALSE,
             details |-> NoDetails, create_protected |-> FALSE,
             changed |-> FALSE, caught |-> {}, message |-> "",
             stack_events |-> <<>>, possible_cause |-> ""]

\* waiter.py:31-38
WAITER_TYPE_CREATE == "stack_create_complete"
WAITER_TYPE_UPDATE == "stack_update_complete"
WAITER_TYPE_DELETE == "stack_delete_complete"
WAITER_TYPE_STATUS_MAP ==
    (WAITER_TYPE_CREATE :> CREATE_COMPLETE) @@
    (WAITER_TYPE_UPDATE :> UPDATE_COMPLETE) @@
    (WAITER_TYPE_DELETE :> DELETE_COMPLETE)

NoResponse == [ok |-> FALSE, status |-> <<>>, err |-> {}]

NoWaiter == [type |-> None, tries |-> 0, polls |-> 0, last |-> NoResponse,
             result |-> "idle"]

VARIABLES
    stack,       \* the CloudFormation stack the invocation names
    pc,          \* position of the client in deploy_infra
    args,        \* arguments of the running deploy_infra call
    loc,         \* locals of _deploy_stack / _do_create_or_update_stack
    called,      \* AWS API operations issued by the running invocation
    waiter,      \* the VerboseCloudFormationWaiter in use
    outcome,     \* how the invocation ended
    contextSet,  \* set_up_yolofile_context has run
    changeSets,  \* change sets that exist for the stack
    bucket       \* the application's S3 bucket exists

infraVars ==
    <<stack, pc, args, loc, called, waiter, outcome, contextSet, changeSets, bucket>>

\* The state `yolo deploy-lambda` works on: the Lambda function of one
\* service, its alias for the stage, the service's parameters in SSM, and
\* the deployments running against them.
VARIABLES
    fn,          \* the Lambda function: its versions, $LATEST, last published
    alias,       \* the version the stage's alias points to
    ssm,         \* SSM parameters under /<service>/<stage>/
    lpc,         \* position of each deployment in deploy_lambda
    largs,       \* arguments of each deploy_lambda call
    lloc,        \* locals of each deployment
    lcalled,     \* AWS API operations each deployment has issued
    lout         \* how each deployment ended

lambdaVars == <<fn, alias, ssm, lpc, largs, lloc, lcalled, lout>>

\* The state of the lpr web application: the ImageSession rows with their
\* images, and the requests being served.
VARIABLES
    sessions,    \* ImageSession rows by id: processed, device, images
    reqs         \* the requests the server is handling or has answered

lprVars == <<sessions, reqs>>

\* The state of one process_video call.
VARIABLES
    input,       \* the frames of the video file
    vs,          \* the cv2.VideoCapture: frames read, released or not
    writer,      \* the cv2.VideoWriter: created or None, frames written
    grabbed,     \* what the last vs.read() reported
    frame,       \* the frame the last vs.read() returned
    vpc,         \* position in process_video
    vresult      \* how the call ended

videoVars == <<input, vs, writer, grabbed, frame, vpc, vresult>>

\* What the yolo commands leave alone.
appVars == <<lprVars, videoVars>>

\* What the lpr views leave alone.
lprFrame == UNCHANGED <<infraVars, lambdaVars, videoVars>>

\* What process_video leaves alone.
videoFrame == UNCHANGED <<infraVars, lambdaVars, lprVars>>


AllStatuses ==
    {CREATE_IN_PROGRESS, CREATE_COMPLETE, CREATE_FAILED, ROLLBACK_IN_PROGRESS,
     ROLLBACK_COMPLETE, UPDATE_IN_PROGRESS, UPDATE_CLEANUP, UPDATE_COMPLETE,
     UPDATE_ROLLBACK_IN_PROGRESS, UPDATE_ROLLBACK_COMPLETE, DELETE_IN_PROGRESS,
     DELETE_COMPLETE, DELETE_FAILED}

\* The states a deployment can find the stack it names in.
StackStates ==
    {NoStack} \cup
    [exists : {TRUE}, status : AllStatuses, termProt : BOOLEAN,
     protTag : BOOLEAN, stale : BOOLEAN]

\* A stack whose deletion completed no longer answers to its name.
Present(s) == s.exists /\ s.status # DELETE_COMPLETE

\* A stack deleted before the command started is simply gone.
InitialStackStates == {s \in StackStates : s.exists => Present(s)}

(***************************************************************************)
(* The environment: CloudFormation itself and other operators.  The model  *)
(* follows the stack for as long as the command works on it: until it has  *)
(* ended or its waiter has given up on the stack (client.py:771-787 reads  *)
(* the stack's events, not the stack).                                     *)
(***************************************************************************)
Running == pc \notin {"done", "cf_error"}

\* CloudFormation moves an operation in progress one step on.
CFProgress ==
    /\ Running
    /\ stack.exists
    /\ \E s \in StatusSucc(stack.status) : stack' = [stack EXCEPT !.status = s]
    /\ UNCHANGED <<pc, args, loc, called, waiter, outcome, contextSet, changeSets, bucket>>
    /\ UNCHANGED <<lambdaVars, appVars>>

\* A deleted stack disappears from describe_stacks.
CFForget ==
    /\ Running
    /\ stack.exists
    /\ stack.status = DELETE_COMPLETE
    /\ stack' = NoStack
    /\ UNCHANGED <<pc, args, loc, called, waiter, outcome, contextSet, changeSets, bucket>>
    /\ UNCHANGED <<lambdaVars, appVars>>

\* Another operator creates, updates or deletes the stack, or turns its
\* termination protection on.  (Nobody turns protection off while a
\* deployment runs: that is a deliberate manual step.)
OperatorActs ==
    /\ Running
    /\ \/ /\ ~Present(stack)
          /\ \E tp \in BOOLEAN, tag \in BOOLEAN, st \in BOOLEAN :
                stack' = [exists |-> TRUE, status |-> CREATE_IN_PROGRESS,
                          termProt |-> tp, protTag |-> tag, stale |-> st]
       \/ /\ stack.exists
          /\ stack.status \in Updatable
          /\ \E st \in (IF stack.stale THEN BOOLEAN ELSE {TRUE}) :
                stack' = [stack EXCEPT !.status = UPDATE_IN_PROGRESS, !.stale = st]
       \/ /\ Present(stack)
          /\ ~stack.termProt
          /\ stack.status # DELETE_IN_PROGRESS
          /\ stack' = [stack EXCEPT !.status = DELETE_IN_PROGRESS]
       \/ /\ Present(stack)
          /\ ~stack.termProt
          /\ stack' = [stack EXCEPT !.termProt = TRUE]
    /\ UNCHANGED <<pc, args, loc, called, waiter, outcome, contextSet, changeSets, bucket>>
    /\ UNCHANGED <<lambdaVars, appVars>>

(***************************************************************************)
(* VerboseCloudFormationWaiter (waiter.py).                                *)
(***************************************************************************)
\* cf_client.describe_stacks(StackName=...): the answer, or the ClientError.
DescribeStacks(s, throttled) ==
    IF throttled THEN [ok |-> FALSE, status |-> <<>>, err |-> ErrThrottling]
    ELSE IF ~s.exists
    THEN [ok |-> FALSE, status |-> <<>>, err |-> ErrNotExist]
    ELSE [ok |-> TRUE, status |-> s.status, err |-> {}]

TriesExceededLate(tries) == tries > MAX_TRIES + 1

\* waiter.py:61
TriesExceeded(tries) == tries > MAX_TRIES

IsDeleteSuccessAnyType(err, type) ==
    /\ "ValidationError" \in err
    /\ "does not exist" \in err

\* waiter.py:68-72: a vanished stack is success for the delete waiter only.
IsDeleteSuccess(err, type) ==
    /\ "ValidationError" \in err
    /\ "does not exist" \in err
    /\ type = WAITER_TYPE_DELETE

\* waiter.py:79
IsTargetStatus(status, type) == status = WAITER_TYPE_STATUS_MAP[type]

StillInProgressUnlessComplete(status) == ~Contains(status, <<"COMPLETE">>)

\* waiter.py:82
StillInProgress(status) == Contains(status, <<"IN", "PROGRESS">>)

\* waiter.py:78-94: what one describe_stacks answer does to the loop.
Classify(resp, type) ==
    IF ~resp.ok
    THEN IF IsDeleteSuccess(resp.err, type) THEN "returned" ELSE "ClientError"
    ELSE IF IsTargetStatus(resp.status, type) THEN "returned"
    ELSE IF StillInProgress(resp.status) THEN "waiting"
    ELSE "CloudFormationError"

\* waiter.py:59-94: one iteration of the `while True` loop of wait().  The
\* answer the loop ends on is kept in `last`; an answer it sleeps on is
\* overwritten by the next iteration before anything reads it.
WaitIteration(w, s, throttled) ==
    IF TriesExceeded(w.tries + 1)
    THEN [w EXCEPT !.tries = w.tries + 1, !.result = "RuntimeError"]
    ELSE LET resp == DescribeStacks(s, throttled)
             result == Classify(resp, w.type)
         IN  [w EXCEPT !.tries = w.tries + 1,
                       !.polls = w.polls + 1,
                       !.last = IF result = "waiting" THEN NoResponse ELSE resp,
                       !.result = result]

\* waiter.py:47-55
NewWaiter(type) == [NoWaiter EXCEPT !.type = type, !.result = "waiting"]


(***************************************************************************)
(* YoloClient.deploy_infra and what it calls (client.py).                  *)
(***************************************************************************)
Finish(o) == pc' = "done" /\ outcome' = o

AtLeastOneTarget(stage, account) == stage # None \/ account # None

\* client.py:876-877
ExactlyOneTarget(stage, account) ==
    LET with_stage == stage # None
        with_account == account # None
    IN  (with_stage /\ ~with_account) \/ (~with_stage /\ with_account)

AccountRecreateAllowed(account, recreate) == FALSE

\* client.py:880-886
AccountRecreateRefused(account, recreate) == account # None /\ recreate

\* client.py:943-946 and 992-993: the `protected` argument of _deploy_stack.
DeployStackProtected(a, stage_cfg_protected) ==
    IF a.stage # None THEN stage_cfg_protected ELSE TRUE

\* client.py:956 and 984-994: the `recreate` argument of _deploy_stack.
DeployStackRecreate(a) ==
    IF a.stage # None THEN a.recreate ELSE FALSE

MsgStackProtected == "Stack is protected; deletion is not allowed."
MsgClientError == "YoloError(err)"
MsgTemplateFailed == "Infrastructure template failed to deploy."

\* client.py:751-770: the message of the YoloError the `except ClientError`
\* clause raises, none when it swallows the error.
ClientErrorMessage(err) ==
    IF "No updates are to be performed" \in err THEN ""
    ELSE IF "TerminationProtection is enabled" \in err THEN MsgStackProtected
    ELSE IF "ValidationError" \in err THEN MsgClientError
    ELSE MsgClientError

\* The locals after a CloudFormation call of _do_create_or_update_stack
\* that left the stack as `after` and raised `err` ({} when it returned).
LocAfter(l, after, err) ==
    [l EXCEPT !.changed = @ \/ after # stack,
              !.caught = err,
              !.message = IF err = {} THEN @ ELSE ClientErrorMessage(err)]

\* The largest number of stack events describe_stack_events reports.
MaxEvents == 2

\* A stack event carries a ResourceStatusReason or none.
StackEvents ==
    {[ResourceStatusReason |-> r] : r \in {None, "limit exceeded", "bad property"}}

StackEventLists == UNION {[1..n -> StackEvents] : n \in 0..MaxEvents}

PossibleCauseOfLast(stack_events) ==
    LET with == {i \in 1..Len(stack_events) :
                    stack_events[i].ResourceStatusReason # None}
    IN  IF with = {} THEN "unknown"
        ELSE stack_events[CHOOSE i \in with : \A j \in with : j <= i]
                 .ResourceStatusReason

\* client.py:772-781: the ResourceStatusReason of the first event that has
\* one.
PossibleCause(stack_events) ==
    LET with == {i \in 1..Len(stack_events) :
                    stack_events[i].ResourceStatusReason # None}
    IN  IF with = {} THEN "unknown"
        ELSE stack_events[CHOOSE i \in with : \A j \in with : i <= j]
                 .ResourceStatusReason

\* client.py:751-770: the outcome of the `except ClientError` clause.
HandleClientError(err) ==
    IF "No updates are to be performed" \in err THEN "ok"
    ELSE IF "TerminationProtection is enabled" \in err THEN "YoloError"
    ELSE IF "ValidationError" \in err THEN "YoloError"
    ELSE "YoloError"

\* client.py:843-905: deploy_infra up to set_up_yolofile_context.  The yolo
\* file says whether account templates are defined and whether the stage is
\* protected.
DeployInfra ==
    /\ pc = "idle"
    /\ \E stage \in {None, "dev"}, account \in {None, "acct"},
          dry_run \in BOOLEAN, asynchronous \in BOOLEAN, recreate \in BOOLEAN,
          account_templates \in BOOLEAN, stage_cfg_protected \in BOOLEAN :
          LET a == [stage |-> stage, account |-> account, dry_run |-> dry_run,
                    asynchronous |-> asynchronous, recreate |-> recreate]
          IN  /\ args' = a
              /\ IF ~ExactlyOneTarget(stage, account)
                 THEN Finish("YoloError") /\ loc' = NoLocals
                 ELSE IF AccountRecreateRefused(account, recreate)
                 THEN Finish("YoloError") /\ loc' = NoLocals
                 ELSE IF account # None /\ ~account_templates
                 THEN Finish("YoloError") /\ loc' = NoLocals
                 ELSE /\ pc' = "context"
                      /\ outcome' = "none"
                      /\ loc' = [NoLocals EXCEPT
                                   !.protected = DeployStackProtected(a, stage_cfg_protected),
                                   !.recreate = DeployStackRecreate(a)]
    /\ UNCHANGED <<stack, called, waiter, contextSet, changeSets, bucket>>
    /\ UNCHANGED <<lambdaVars, appVars>>

\* client.py:272-345 and 890-891: set_up_yolofile_context reads the outputs
\* of the account and stage stacks (a missing stack gives empty outputs, any
\* other ClientError propagates).
SetUpContext ==
    /\ pc = "context"
    /\ called' = called \cup {"describe_stacks"}
    /\ \E throttled \in BOOLEAN :
          IF throttled
          THEN Finish("ClientError") /\ contextSet' = FALSE
          ELSE pc' = "bucket" /\ contextSet' = TRUE /\ UNCHANGED outcome
    /\ UNCHANGED <<stack, args, loc, waiter, changeSets, bucket>>
    /\ UNCHANGED <<lambdaVars, appVars>>

\* client.py:423-464 and 1040-1044: _ensure_bucket looks for the bucket
\* (head_bucket) and creates it when it is not found.
EnsureBucket ==
    /\ pc = "bucket"
    /\ called' = called \cup {"head_bucket"}
    /\ bucket' = TRUE
    /\ pc' = "upload"
    /\ UNCHANGED <<stack, args, loc, waiter, outcome, contextSet, changeSets>>
    /\ UNCHANGED <<lambdaVars, appVars>>

CreateOrUpdateEntryIgnoringDryRun(dry_run) == "do_exists"

\* client.py:466-520: _create_or_update_stack chooses the dry run or the
\* real thing.
CreateOrUpdateEntry(dry_run) == IF dry_run THEN "dry_exists" ELSE "do_exists"

\* client.py:1055-1107: _deploy_stack uploads the templates; unpacking the
\* single master.* file fails when the directory holds none.
UploadTemplates ==
    /\ pc = "upload"
    /\ \E has_master \in BOOLEAN :
          IF ~has_master
          THEN Finish("ValueError") /\ UNCHANGED called
          ELSE /\ called' = called \cup {"upload_file"}
               /\ pc' = CreateOrUpdateEntry(args.dry_run)
               /\ UNCHANGED outcome
    /\ UNCHANGED <<stack, args, loc, waiter, contextSet, changeSets, bucket>>
    /\ UNCHANGED <<lambdaVars, appVars>>


\* cloudformation.py:31-42: stack_exists, from one describe_stacks answer.
StackExists(resp) ==
    IF resp.ok THEN "yes"
    ELSE IF "does not exist" \in resp.err THEN "no"
    ELSE "raise"

(***************************************************************************)
(* _update_stack_dry_run (client.py:522-592).                              *)
(***************************************************************************)
\* client.py:531-536
DryStackExists ==
    /\ pc = "dry_exists"
    /\ called' = called \cup {"describe_stacks"}
    /\ \E throttled \in BOOLEAN :
          LET e == StackExists(DescribeStacks(stack, throttled))
          IN  IF e = "raise" THEN Finish("ClientError")
              ELSE IF e = "no" THEN Finish("YoloError")
              ELSE pc' = "dry_changeset" /\ UNCHANGED outcome
    /\ UNCHANGED <<stack, args, loc, waiter, contextSet, changeSets, bucket>>
    /\ UNCHANGED <<lambdaVars, appVars>>

\* client.py:540-543, cloudformation.py:100-126: create the change set and
\* wait for it; botocore's waiter fails when the change set does (as it does
\* when it holds no changes), and the change set is then left behind.
DryCreateChangeSet ==
    /\ pc = "dry_changeset"
    /\ called' = called \cup {"create_change_set"}
    /\ \E throttled \in BOOLEAN :
          IF throttled \/ ~Present(stack)
          THEN Finish("ClientError") /\ UNCHANGED changeSets
          ELSE IF ~stack.stale
          THEN Finish("WaiterError") /\ changeSets' = changeSets + 1
          ELSE pc' = "dry_describe" /\ changeSets' = changeSets + 1 /\ UNCHANGED outcome
    /\ UNCHANGED <<stack, args, loc, waiter, contextSet, bucket>>
    /\ UNCHANGED <<lambdaVars, appVars>>

\* client.py:546-586: read the change set, the stack and both templates, and
\* print the differences.
DryDescribe ==
    /\ pc = "dry_describe"
    /\ called' = called \cup {"describe_change_set", "describe_stacks", "get_template"}
    /\ \E throttled \in BOOLEAN :
          IF throttled \/ ~stack.exists
          THEN Finish("ClientError")
          ELSE pc' = "dry_cleanup" /\ UNCHANGED outcome
    /\ UNCHANGED <<stack, args, loc, waiter, contextSet, changeSets, bucket>>
    /\ UNCHANGED <<lambdaVars, appVars>>

\* client.py:590-592
DryDeleteChangeSet ==
    /\ pc = "dry_cleanup"
    /\ called' = called \cup {"delete_change_set"}
    /\ \E throttled \in BOOLEAN :
          IF throttled
          THEN Finish("ClientError") /\ UNCHANGED changeSets
          ELSE Finish("ok") /\ changeSets' = changeSets - 1
    /\ UNCHANGED <<stack, args, loc, waiter, contextSet, bucket>>
    /\ UNCHANGED <<lambdaVars, appVars>>

(***************************************************************************)
(* _do_create_or_update_stack (client.py:678-787).                         *)
(***************************************************************************)
\* client.py:691-750: the branch taken after stack_exists.
DoBranch(exists, recreate, protected) ==
    IF ~exists THEN "create"
    ELSE IF recreate THEN "recreate_check"
    ELSE IF protected THEN "update_protect"
    ELSE "update"

\* client.py:686-687: stack_exists, outside the try block.  stack_details
\* is read by the recreate branch only (client.py:713) and kept for it.
DoStackExists ==
    /\ pc = "do_exists"
    /\ called' = called \cup {"describe_stacks"}
    /\ \E throttled \in BOOLEAN :
          LET e == StackExists(DescribeStacks(stack, throttled))
          IN  IF e = "raise"
              THEN Finish("ClientError") /\ UNCHANGED loc
              ELSE /\ pc' = DoBranch(e = "yes", loc.recreate, loc.protected)
                   /\ loc' = [loc EXCEPT
                                !.details =
                                    IF e = "yes" /\ loc.recreate
                                    THEN [exists |-> TRUE,
                                          termProt |-> stack.termProt,
                                          protTag |-> stack.protTag]
                                    ELSE NoDetails,
                                !.create_protected = loc.protected]
                   /\ UNCHANGED outcome
    /\ UNCHANGED <<stack, args, waiter, contextSet, changeSets, bucket>>
    /\ UNCHANGED <<lambdaVars, appVars>>

\* client.py:715: the_stack.get('EnableTerminationProtection', False)
ProtectedByCloudFormation(details) == details.termProt

ProtectedByYoloTagIgnored(details) == FALSE

\* client.py:721: const.YOLO_STACK_TAGS['protected'] in the_stack['Tags']
ProtectedByYoloTag(details) == details.protTag

\* cf_client.update_termination_protection(EnableTerminationProtection=True)
UpdateTerminationProtection(s, throttled) ==
    IF throttled THEN [ok |-> FALSE, err |-> ErrThrottling, stack |-> s]
    ELSE IF ~Present(s) THEN [ok |-> FALSE, err |-> ErrNotExist, stack |-> s]
    ELSE [ok |-> TRUE, err |-> {}, stack |-> [s EXCEPT !.termProt = TRUE]]

\* client.py:744: the `protected` argument recreate_stack is given.
RecreateProtectedArg(protected, is_protected) == is_protected

\* client.py:696-745: the protection check before a recreate.  is_protected
\* is False wherever recreate_stack is reached.
RecreateCheck ==
    /\ pc = "recreate_check"
    /\ IF ProtectedByCloudFormation(loc.details)
       THEN Finish("YoloError") /\ UNCHANGED <<called, stack, loc>>
       ELSE IF ProtectedByYoloTag(loc.details)
       THEN \E throttled \in BOOLEAN :
               LET r == UpdateTerminationProtection(stack, throttled)
               IN  /\ called' = called \cup {"update_termination_protection"}
                   /\ stack' = r.stack
                   /\ Finish(IF r.ok THEN "YoloError" ELSE HandleClientError(r.err))
                   /\ loc' = LocAfter(loc, r.stack, r.err)
       ELSE /\ pc' = "delete"
            /\ loc' = [loc EXCEPT !.create_protected =
                          RecreateProtectedArg(loc.protected, FALSE)]
            /\ UNCHANGED <<called, stack, outcome>>
    /\ UNCHANGED <<args, waiter, contextSet, changeSets, bucket>>
    /\ UNCHANGED <<lambdaVars, appVars>>

\* cf_client.delete_stack: refused while termination protection is on; a
\* stack that is not there is deleted without complaint.
DeleteStackCall(s, throttled) ==
    IF throttled THEN [ok |-> FALSE, err |-> ErrThrottling, stack |-> s]
    ELSE IF Present(s) /\ s.termProt
    THEN [ok |-> FALSE, err |-> ErrTermProt, stack |-> s]
    ELSE IF ~Present(s) THEN [ok |-> TRUE, err |-> {}, stack |-> s]
    ELSE [ok |-> TRUE, err |-> {},
          stack |-> [s EXCEPT !.status = DELETE_IN_PROGRESS]]

\* cf_client.create_stack
CreateStackCall(s, protected, tag, fault) ==
    IF fault = "throttled" THEN [ok |-> FALSE, err |-> ErrThrottling, stack |-> s]
    ELSE IF Present(s) THEN [ok |-> FALSE, err |-> ErrAlreadyExists, stack |-> s]
    ELSE IF fault = "template" THEN [ok |-> FALSE, err |-> ErrValidation, stack |-> s]
    ELSE [ok |-> TRUE, err |-> {},
          stack |-> [exists |-> TRUE, status |-> CREATE_IN_PROGRESS,
                     termProt |-> protected, protTag |-> tag, stale |-> FALSE]]

\* cf_client.update_stack
UpdateStackCall(s, fault) ==
    IF fault = "throttled" THEN [ok |-> FALSE, err |-> ErrThrottling, stack |-> s]
    ELSE IF ~Present(s) THEN [ok |-> FALSE, err |-> ErrNotExist, stack |-> s]
    ELSE IF s.status \notin Updatable
    THEN [ok |-> FALSE, err |-> ErrValidation, stack |-> s]
    ELSE IF fault = "template" THEN [ok |-> FALSE, err |-> ErrValidation, stack |-> s]
    ELSE IF ~s.stale THEN [ok |-> FALSE, err |-> ErrNoUpdates, stack |-> s]
    ELSE [ok |-> TRUE, err |-> {},
          stack |-> [s EXCEPT !.status = UPDATE_IN_PROGRESS, !.stale = FALSE]]

Faults == {"none", "throttled", "template"}

\* cloudformation.py:85-96: recreate_stack deletes and starts the delete
\* waiter.
DeleteStack ==
    /\ pc = "delete"
    /\ called' = called \cup {"delete_stack"}
    /\ \E throttled \in BOOLEAN :
          LET r == DeleteStackCall(stack, throttled)
          IN  /\ stack' = r.stack
              /\ loc' = LocAfter(loc, r.stack, r.err)
              /\ IF r.ok
                 THEN /\ pc' = "wait"
                      /\ waiter' = NewWaiter(WAITER_TYPE_DELETE)
                      /\ UNCHANGED outcome
                 ELSE Finish(HandleClientError(r.err)) /\ UNCHANGED waiter
    /\ UNCHANGED <<args, contextSet, changeSets, bucket>>
    /\ UNCHANGED <<lambdaVars, appVars>>

\* client.py:1036-1038: the yolo:Protected tag goes with `protected`.
TagsProtected(protected) == protected

\* cloudformation.py:44-61: create_stack, called with asynchronous and
\* protected as passed by client.py:692-695 or cloudformation.py:97-98.
CreateStack ==
    /\ pc = "create"
    /\ called' = called \cup {"create_stack"}
    /\ \E fault \in Faults :
          LET r == CreateStackCall(stack, loc.create_protected,
                                   TagsProtected(loc.protected), fault)
          IN  /\ stack' = r.stack
              /\ loc' = LocAfter(loc, r.stack, r.err)
              /\ IF ~r.ok
                 THEN Finish(HandleClientError(r.err)) /\ UNCHANGED waiter
                 ELSE IF args.asynchronous
                 THEN Finish("ok") /\ UNCHANGED waiter
                 ELSE /\ pc' = "wait"
                      /\ waiter' = NewWaiter(WAITER_TYPE_CREATE)
                      /\ UNCHANGED outcome
    /\ UNCHANGED <<args, contextSet, changeSets, bucket>>
    /\ UNCHANGED <<lambdaVars, appVars>>

\* cloudformation.py:65-70: update_stack adds termination protection
\* before anything else when protected.
UpdateProtect ==
    /\ pc = "update_protect"
    /\ called' = called \cup {"update_termination_protection"}
    /\ \E throttled \in BOOLEAN :
          LET r == UpdateTerminationProtection(stack, throttled)
          IN  /\ stack' = r.stack
              /\ loc' = LocAfter(loc, r.stack, r.err)
              /\ IF r.ok
                 THEN pc' = "update" /\ UNCHANGED outcome
                 ELSE Finish(HandleClientError(r.err))
    /\ UNCHANGED <<args, waiter, contextSet, changeSets, bucket>>
    /\ UNCHANGED <<lambdaVars, appVars>>

\* cloudformation.py:72-83: the update itself.
UpdateStack ==
    /\ pc = "update"
    /\ called' = called \cup {"update_stack"}
    /\ \E fault \in Faults :
          LET r == UpdateStackCall(stack, fault)
          IN  /\ stack' = r.stack
              /\ loc' = LocAfter(loc, r.stack, r.err)
              /\ IF ~r.ok
                 THEN Finish(HandleClientError(r.err)) /\ UNCHANGED waiter
                 ELSE IF args.asynchronous
                 THEN Finish("ok") /\ UNCHANGED waiter
                 ELSE /\ pc' = "wait"
                      /\ waiter' = NewWaiter(WAITER_TYPE_UPDATE)
                      /\ UNCHANGED outcome
    /\ UNCHANGED <<args, contextSet, changeSets, bucket>>
    /\ UNCHANGED <<lambdaVars, appVars>>


\* cloudformation.py:95-98 and 60-61, 82-83: where a waiter that returned
\* hands control.
AfterWait(type) == IF type = WAITER_TYPE_DELETE THEN "create" ELSE "done"

\* waiter.py:57-94, one loop iteration, and where its exception lands in
\* _do_create_or_update_stack (client.py:751-771): RuntimeError is caught by
\* nobody.
WaiterPoll ==
    /\ pc = "wait"
    /\ waiter.result = "waiting"
    /\ \E throttled \in BOOLEAN :
          LET w == WaitIteration(waiter, stack, throttled)
          IN  /\ waiter' = w
              /\ called' = IF w.polls > waiter.polls
                           THEN called \cup {"describe_stacks"} ELSE called
              /\ loc' = IF w.result = "ClientError"
                        THEN LocAfter(loc, stack, w.last.err) ELSE loc
              /\ CASE w.result = "waiting" -> UNCHANGED <<pc, outcome>>
                   [] w.result = "returned" ->
                        IF AfterWait(w.type) = "done"
                        THEN Finish("ok")
                        ELSE pc' = AfterWait(w.type) /\ UNCHANGED outcome
                   [] w.result = "ClientError" -> Finish(HandleClientError(w.last.err))
                   [] w.result = "CloudFormationError" ->
                        pc' = "cf_error" /\ UNCHANGED outcome
                   [] w.result = "RuntimeError" -> Finish("RuntimeError")
    /\ UNCHANGED <<stack, args, contextSet, changeSets, bucket>>
    /\ UNCHANGED <<lambdaVars, appVars>>

\* client.py:771-787: a CloudFormationError is reported with the stack
\* events; a ClientError from describe_stack_events escapes.
ReportStackFailure ==
    /\ pc = "cf_error"
    /\ called' = called \cup {"describe_stack_events"}
    /\ \E throttled \in BOOLEAN :
          IF throttled THEN Finish("ClientError") /\ UNCHANGED loc
          ELSE \E stack_events \in StackEventLists :
                 /\ Finish("YoloError")
                 /\ loc' = [loc EXCEPT
                              !.message = MsgTemplateFailed,
                              !.stack_events = stack_events,
                              !.possible_cause = PossibleCause(stack_events)]
    /\ UNCHANGED <<stack, args, waiter, contextSet, changeSets, bucket>>
    /\ UNCHANGED <<lambdaVars, appVars>>

(***************************************************************************)
(* yolo deploy-lambda: client.py deploy_lambda and                         *)
(* services/lambda_service.py.  Every deployment is its own process; they  *)
(* share the Lambda function, its alias and the SSM parameters.            *)
(***************************************************************************)
Deployers == {"d1", "d2"}

\* The service and stage every deployment in the model names.
SERVICE == "svc"
STAGE == "dev"

\* Parameter names SSM can hold for the service, and the ones a yolo file
\* can ask for.
ParamNames == {"p", "q"}
YoloParamNames == {"p"}

\* The highest version number the function has issued before the
\* deployments start.
MaxVersion == 2

\* lambda_service.py:526: the page size _get_all_lambda_fn_versions asks for.
max_items == 1000

\* lambda_service.py:532-537: Lambda returns fewer items per page than that.
LambdaPageCap == 2

\* A Lambda version label is the text '$LATEST' or a decimal numeral.
LATEST == <<"$LATEST">>
NoVersion == <<>>
Digits == <<"0", "1", "2", "3", "4", "5", "6", "7", "8", "9">>

DigitValue(c) == CHOOSE i \in 0..9 : Digits[i + 1] = c

\* str() of a non-negative int, as Lambda and str.format() write a number.
RECURSIVE VersionString(_)
VersionString(n) ==
    IF n < 10 THEN <<Digits[n + 1]>>
    ELSE Append(VersionString(n \div 10), Digits[(n % 10) + 1])

\* int() of a decimal numeral.
RECURSIVE ParseInt(_)
ParseInt(s) ==
    IF Len(s) = 1 THEN DigitValue(s[1])
    ELSE 10 * ParseInt(SubSeq(s, 1, Len(s) - 1)) + DigitValue(s[Len(s)])

Min(a, b) == IF a < b THEN a ELSE b

\* max() of a non-empty list of ints.
Max(xs) == CHOOSE m \in {xs[i] : i \in 1..Len(xs)} :
               \A i \in 1..Len(xs) : xs[i] <= m

\* The numbers of a set in ascending order.
RECURSIVE Ascending(_)
Ascending(S) ==
    IF S = {} THEN <<>>
    ELSE LET least == CHOOSE x \in S : \A y \in S : x <= y
         IN  <<least>> \o Ascending(S \ {least})

\* lambda_service.py:427-431: the value of SSM_CONFIG_VERSION,
\* '/{service}/{stage}/{version}/'.
NoPath == <<>>
SsmConfigPath(service, stage, version) ==
    <<service, stage, VersionString(version)>>

\* Code and configuration of $LATEST or of a published version.
NoCode == [source |-> None, version |-> None]
NoSnapshot == [code |-> NoCode, env |-> NoPath]

NoFn == [exists |-> FALSE, versions |-> {}, counter |-> 0,
         latest |-> NoSnapshot, published |-> NoSnapshot]

\* The 'parameters' section of the build's yolo file for the stage.
NoParameters == [defined |-> FALSE, names |-> {}]
YoloFileParameters ==
    {NoParameters} \cup [defined : {TRUE}, names : SUBSET YoloParamNames]

NoLargs == [version |-> None, from_local |-> FALSE]

NoLloc == [context |-> FALSE, code_config |-> NoCode,
           parameters |-> NoParameters, next_fn_version |-> 0,
           env |-> NoPath, sent_env |-> NoPath,
           fn_version |-> NoVersion, returned |-> NoVersion,
           missing_params |-> {}]

NoOutcome == [result |-> "none", message |-> ""]

\* The function as a deployment can find it: absent, or present with some
\* numbered versions left (numbers are never issued twice), $LATEST either
\* as last published or edited since.
FunctionStates ==
    {NoFn} \cup UNION {
    {[exists |-> TRUE, versions |-> numbered, counter |-> c,
      latest |-> [code |-> lc,
                  env |-> IF c = 0 THEN NoPath
                          ELSE SsmConfigPath(SERVICE, STAGE, c)],
      published |-> IF c = 0 THEN NoSnapshot
                    ELSE [code |-> [source |-> "S3", version |-> "v1"],
                          env |-> SsmConfigPath(SERVICE, STAGE, c)]] :
        numbered \in SUBSET (1..c),
        lc \in {[source |-> "S3", version |-> "v1"],
                [source |-> "S3", version |-> "v0"]}} : c \in 0..MaxVersion}

\* Lambda's list_versions_by_function: $LATEST first, then the numbered
\* versions, at most `limit` items per page from `marker` on.
VersionListing(f) ==
    <<LATEST>> \o [i \in 1..Cardinality(f.versions) |->
                     VersionString(Ascending(f.versions)[i])]

ListVersionsByFunction(f, marker, limit) ==
    LET all == VersionListing(f)
        last == Min(Len(all), marker + limit - 1)
    IN  [Versions |-> SubSeq(all, marker, last),
         NextMarker |-> IF last < Len(all) THEN last + 1 ELSE 0]

\* lambda_service.py:548-555: the numbers of a page, '$LATEST' skipped.
RECURSIVE PageNumbers(_)
PageNumbers(versions) ==
    IF versions = <<>> THEN <<>>
    ELSE IF Head(versions) = LATEST THEN PageNumbers(Tail(versions))
    ELSE <<ParseInt(Head(versions))>> \o PageNumbers(Tail(versions))

\* lambda_service.py:558-572: the first page, then pages while a marker
\* comes back.
RECURSIVE FetchFnVersionPages(_, _)
FetchFnVersionPages(f, marker) ==
    LET resp == ListVersionsByFunction(f, marker, Min(max_items, LambdaPageCap))
    IN  PageNumbers(resp.Versions) \o
        (IF resp.NextMarker = 0 THEN <<>>
         ELSE FetchFnVersionPages(f, resp.NextMarker))

\* lambda_service.py:509-572 (a function that does not exist has no versions).
GetAllLambdaFnVersions(f) ==
    IF ~f.exists THEN <<>> ELSE FetchFnVersionPages(f, 1)

\* lambda_service.py:412-415.
NextFnVersion(fn_versions) ==
    IF Len(fn_versions) = 0 THEN 1 ELSE Max(fn_versions) + 1

VersionsMatchAlways(fn_version, next_fn_version) == TRUE

\* lambda_service.py:496.
VersionsMatch(fn_version, next_fn_version) ==
    ParseInt(fn_version) = next_fn_version

\* client.py:1222 and 1227.
NeitherSource(version, from_local) == version = None /\ ~from_local

BothSourcesAllowed(version, from_local) == FALSE

BothSources(version, from_local) == version # None /\ from_local

MsgNeither == "You have to either specify a version, or use --from-local."
MsgBoth == "You can only specify one of --version or --from-local, but not both."
MsgNoStack == "Stage infrastructure stack does not exist"
MsgNoBuilds == "No builds found for version"
MsgMissing == "The following parameters were not available for deployment"
MsgInvalid == "Invalid deployed function version!"

\* A deployment ends: the command returns or raises.
Raise(d, exc, msg) ==
    /\ lpc' = [lpc EXCEPT ![d] = "done"]
    /\ lout' = [lout EXCEPT ![d] = [result |-> exc, message |-> msg]]

Goto(d, label) ==
    /\ lpc' = [lpc EXCEPT ![d] = label]
    /\ UNCHANGED lout

Calls(d, ops) == lcalled' = [lcalled EXCEPT ![d] = @ \cup ops]

stackVars ==
    <<stack, pc, args, loc, called, waiter, outcome, contextSet, changeSets,
      appVars>>

\* client.py:1221-1231 (script.py:246-273 passes the command line on).
DeployLambda(d) ==
    /\ lpc[d] = "idle"
    /\ \E version \in {None, "v1"}, from_local \in BOOLEAN :
          /\ largs' = [largs EXCEPT ![d] =
                         [version |-> version, from_local |-> from_local]]
          /\ IF NeitherSource(version, from_local)
             THEN Raise(d, "YoloError", MsgNeither)
             ELSE IF BothSources(version, from_local)
             THEN Raise(d, "YoloError", MsgBoth)
             ELSE Goto(d, "context")
    /\ UNCHANGED <<fn, alias, ssm, lloc, lcalled, bucket>>
    /\ UNCHANGED stackVars

\* client.py:1233-1243: set_up_yolofile_context (client.py:238-248 raises when
\* the stage's stack is missing) and _ensure_bucket (client.py:423-464).
LambdaSetUp(d) ==
    /\ lpc[d] = "context"
    /\ \E stage_stack \in BOOLEAN :
          IF ~stage_stack
          THEN /\ Raise(d, "YoloError", MsgNoStack)
               /\ Calls(d, {"describe_stacks"})
               /\ UNCHANGED <<lloc, bucket>>
          ELSE /\ Goto(d, "load")
               /\ Calls(d, {"describe_stacks", "head_bucket"} \cup
                           (IF bucket THEN {} ELSE {"create_bucket"}))
               /\ lloc' = [lloc EXCEPT ![d].context = TRUE]
               /\ bucket' = TRUE
    /\ UNCHANGED <<fn, alias, ssm, largs>>
    /\ UNCHANGED stackVars

\* client.py:1250-1253 with lambda_service.py:153-163 (deploy_local_version:
\* the local zip and yolo file) and 212-272 (deploy: the latest pushed build
\* of the version, its yolo file and its S3 key).
LoadCode(d) ==
    /\ lpc[d] = "load"
    /\ IF largs[d].from_local
       THEN /\ \E parameters \in YoloFileParameters :
                  lloc' = [lloc EXCEPT
                             ![d].code_config = [source |-> "ZipFile", version |-> None],
                             ![d].parameters = parameters]
            /\ Goto(d, "list")
            /\ UNCHANGED lcalled
       ELSE /\ Calls(d, {"list_objects"})
            /\ \E builds \in BOOLEAN :
                  IF ~builds
                  THEN Raise(d, "YoloError", MsgNoBuilds) /\ UNCHANGED lloc
                  ELSE /\ \E parameters \in YoloFileParameters :
                             lloc' = [lloc EXCEPT
                                        ![d].code_config =
                                            [source |-> "S3",
                                             version |-> largs[d].version],
                                        ![d].parameters = parameters]
                       /\ Goto(d, "list")
    /\ UNCHANGED <<fn, alias, ssm, largs, bucket>>
    /\ UNCHANGED stackVars

\* lambda_service.py:409-416.
ListVersions(d) ==
    /\ lpc[d] = "list"
    /\ Calls(d, {"list_versions_by_function"})
    /\ lloc' = [lloc EXCEPT ![d].next_fn_version =
                                NextFnVersion(GetAllLambdaFnVersions(fn))]
    /\ Goto(d, "ssm")
    /\ UNCHANGED <<fn, alias, ssm, largs, bucket>>
    /\ UNCHANGED stackVars

\* lambda_service.py:606: the page size _copy_ssm_parameters asks for.
MaxResults == 10

\* SSM returns fewer parameters per page than that.
SsmPageCap == 1

\* SSM's get_parameters_by_path: at most `limit` of the parameters under the
\* path that the pages before have not returned, and a token while some are
\* left.
GetParametersByPath(remaining, limit) ==
    LET size == Min(Cardinality(remaining), limit)
        page == CHOOSE P \in SUBSET remaining : Cardinality(P) = size
    IN  [Parameters |-> page, NextToken |-> remaining \ page]

FetchFirstParamPage(remaining) ==
    GetParametersByPath(remaining, Min(MaxResults, SsmPageCap)).Parameters

\* lambda_service.py:600-620: the first page, then pages while a token
\* comes back.
RECURSIVE FetchParamPages(_)
FetchParamPages(remaining) ==
    LET resp == GetParametersByPath(remaining, Min(MaxResults, SsmPageCap))
    IN  resp.Parameters \cup
        (IF resp.NextToken = {} THEN {}
         ELSE FetchParamPages(resp.NextToken))

\* lambda_service.py:587-593: '/{service}/{stage}/latest/' and
\* '/{service}/{stage}/{deploy_version}/'.
SourcePath(service, stage) == <<service, stage, "latest">>
DestPath(service, stage, deploy_version) ==
    <<service, stage, VersionString(deploy_version)>>

\* The parameters SSM holds directly under a path, by full name.
ParametersByPath(store, path) == {Append(path, p) : p \in store}

\* lambda_service.py:624: x['Name'].split(source_path)[1].
SplitName(name, source_path) ==
    IF Len(name) > Len(source_path)
       /\ SubSeq(name, 1, Len(source_path)) = source_path
    THEN SubSeq(name, Len(source_path) + 1, Len(name))
    ELSE <<>>

MissingParamsIgnored(build_yolofile_param_names, param_names) == {}

\* lambda_service.py:645.
MissingParams(build_yolofile_param_names, param_names) ==
    build_yolofile_param_names \ param_names

\* lambda_service.py:660-662: os.path.join(dest_path, os.path.basename(name)).
NewParamName(dest_path, name) == Append(dest_path, name[Len(name)])

\* lambda_service.py:419-431: _copy_ssm_parameters (574-677), then the
\* SSM_CONFIG_VERSION variable of the function's configuration.
CopySsmParameters(d) ==
    /\ lpc[d] = "ssm"
    /\ LET deploy_version == lloc[d].next_fn_version
           source_path == SourcePath(SERVICE, STAGE)
           dest_path == DestPath(SERVICE, STAGE, deploy_version)
           ssm_params == FetchParamPages(
                             ParametersByPath(ssm.latest, source_path))
           param_names == {SplitName(x, source_path) : x \in ssm_params}
           wanted == lloc[d].parameters
           missing_params ==
               MissingParams({<<n>> : n \in wanted.names}, param_names)
       IN  IF wanted.defined /\ missing_params # {}
           THEN /\ Raise(d, "YoloError", MsgMissing)
                /\ Calls(d, {"get_parameters_by_path"})
                /\ lloc' = [lloc EXCEPT ![d].missing_params =
                                           {m[1] : m \in missing_params}]
                /\ UNCHANGED ssm
           ELSE /\ Goto(d, "get")
                /\ IF wanted.defined
                   THEN /\ ssm' = [ssm EXCEPT !.copied =
                                     @ \cup {NewParamName(dest_path, x) :
                                                x \in ssm_params}]
                        /\ Calls(d, {"get_parameters_by_path"} \cup
                                    (IF ssm_params = {} THEN {}
                                     ELSE {"put_parameter"}))
                   ELSE /\ UNCHANGED ssm
                        /\ Calls(d, {"get_parameters_by_path"})
                /\ lloc' = [lloc EXCEPT ![d].env =
                              SsmConfigPath(SERVICE, STAGE, deploy_version)]
    /\ UNCHANGED <<fn, alias, largs, bucket>>
    /\ UNCHANGED stackVars

\* lambda_service.py:441-447 and 461-466: get_function tells whether the
\* function exists; any other client error propagates.
GetFunction(d) ==
    /\ lpc[d] = "get"
    /\ Calls(d, {"get_function"})
    /\ \E throttled \in BOOLEAN :
          IF throttled THEN Raise(d, "ClientError", "Throttling")
          ELSE IF fn.exists THEN Goto(d, "code")
          ELSE Goto(d, "create")
    /\ UNCHANGED <<fn, alias, ssm, largs, lloc, bucket>>
    /\ UNCHANGED stackVars

\* lambda_service.py:452-456: create_function(Publish=True) publishes
\* version 1; Lambda refuses a name that is taken.
CreateFunction(d) ==
    /\ lpc[d] = "create"
    /\ Calls(d, {"create_function"})
    /\ IF fn.exists
       THEN /\ Raise(d, "ClientError", "ResourceConflictException")
            /\ UNCHANGED <<fn, lloc>>
       ELSE LET snapshot == [code |-> lloc[d].code_config, env |-> lloc[d].env]
            IN  /\ fn' = [exists |-> TRUE, versions |-> {1}, counter |-> 1,
                          latest |-> snapshot, published |-> snapshot]
                /\ lloc' = [lloc EXCEPT ![d].fn_version = VersionString(1),
                                         ![d].sent_env = snapshot.env]
                /\ Goto(d, "check")
    /\ UNCHANGED <<alias, ssm, largs, bucket>>
    /\ UNCHANGED stackVars

\* lambda_service.py:469-472: update_function_code changes $LATEST.
UpdateFunctionCode(d) ==
    /\ lpc[d] = "code"
    /\ Calls(d, {"update_function_code"})
    /\ fn' = [fn EXCEPT !.latest.code = lloc[d].code_config]
    /\ Goto(d, "config")
    /\ UNCHANGED <<alias, ssm, largs, lloc, bucket>>
    /\ UNCHANGED stackVars

\* lambda_service.py:473-475: update_function_configuration changes $LATEST.
UpdateFunctionConfiguration(d) ==
    /\ lpc[d] = "config"
    /\ Calls(d, {"update_function_configuration"})
    /\ fn' = [fn EXCEPT !.latest.env = lloc[d].env]
    /\ lloc' = [lloc EXCEPT ![d].sent_env = lloc[d].env]
    /\ Goto(d, "publish")
    /\ UNCHANGED <<alias, ssm, largs, bucket>>
    /\ UNCHANGED stackVars

\* Lambda's publish_version: a new number for $LATEST, or the last version
\* again when $LATEST has not changed since it was published.
PublishedAgain(f) == f.latest = f.published /\ f.counter \in f.versions

\* lambda_service.py:484-486.
PublishVersion(d) ==
    /\ lpc[d] = "publish"
    /\ Calls(d, {"publish_version"})
    /\ IF PublishedAgain(fn)
       THEN /\ lloc' = [lloc EXCEPT ![d].fn_version = VersionString(fn.counter)]
            /\ UNCHANGED fn
       ELSE /\ fn' = [fn EXCEPT !.counter = @ + 1,
                                !.versions = @ \cup {fn.counter + 1},
                                !.published = fn.latest]
            /\ lloc' = [lloc EXCEPT ![d].fn_version = VersionString(fn.counter + 1)]
    /\ Goto(d, "check")
    /\ UNCHANGED <<alias, ssm, largs, bucket>>
    /\ UNCHANGED stackVars

\* lambda_service.py:492-507: the sanity check and the return.
CheckVersion(d) ==
    /\ lpc[d] = "check"
    /\ IF ~VersionsMatch(lloc[d].fn_version, lloc[d].next_fn_version)
       THEN Raise(d, "YoloError", MsgInvalid) /\ UNCHANGED lloc
       ELSE /\ lloc' = [lloc EXCEPT ![d].returned = lloc[d].fn_version]
            /\ Goto(d, "alias")
    /\ UNCHANGED <<fn, alias, ssm, largs, lcalled, bucket>>
    /\ UNCHANGED stackVars

\* lambda_service.py:699-705 and 716-719: get_alias.
GetAlias(d) ==
    /\ lpc[d] = "alias"
    /\ Calls(d, {"get_alias"})
    /\ \E throttled \in BOOLEAN :
          IF throttled THEN Raise(d, "ClientError", "Throttling")
          ELSE IF alias = NoVersion THEN Goto(d, "create_alias")
          ELSE Goto(d, "update_alias")
    /\ UNCHANGED <<fn, alias, ssm, largs, lloc, bucket>>
    /\ UNCHANGED stackVars

\* lambda_service.py:710-715: create_alias; Lambda refuses a name that is
\* taken.  The service is of type 'lambda', so the deployment ends here
\* (lambda_service.py:181, 290).
CreateAlias(d) ==
    /\ lpc[d] = "create_alias"
    /\ Calls(d, {"create_alias"})
    /\ IF alias # NoVersion
       THEN Raise(d, "ClientError", "ResourceConflictException") /\ UNCHANGED alias
       ELSE Raise(d, "ok", "") /\ alias' = lloc[d].returned
    /\ UNCHANGED <<fn, ssm, largs, lloc, bucket>>
    /\ UNCHANGED stackVars

\* lambda_service.py:724-729: update_alias.
UpdateAlias(d) ==
    /\ lpc[d] = "update_alias"
    /\ Calls(d, {"update_alias"})
    /\ Raise(d, "ok", "")
    /\ alias' = lloc[d].returned
    /\ UNCHANGED <<fn, ssm, largs, lloc, bucket>>
    /\ UNCHANGED stackVars

\* The deployments have not started; the stack of the infrastructure
\* commands plays no part.
LambdaIdle ==
    /\ lpc = [d \in Deployers |-> "idle"]
    /\ largs = [d \in Deployers |-> NoLargs]
    /\ lloc = [d \in Deployers |-> NoLloc]
    /\ lcalled = [d \in Deployers |-> {}]
    /\ lout = [d \in Deployers |-> NoOutcome]


(***************************************************************************)
(* The lpr web application: lprApp/views.py on the ImageSession model      *)
(* (lprApp/models.py), routed by lpr/urls.py.  The server handles          *)
(* requests side by side; a view's queries and saves are separate          *)
(* statements against the database.                                        *)
(***************************************************************************)
Devices == {"a", "b"}
SessionIds == {1, 2}
Requests == {"r1", "r2"}

\* The most images a session holds.
MaxImages == 1

\* models.py:13-16, with the session's images counted and whether
\* process_image has run on them.
NoSession == [exists |-> FALSE, processed |-> FALSE, device |-> None,
              images |-> 0, blurred |-> FALSE]

SessionStates ==
    {NoSession} \cup
    {s \in [exists : {TRUE}, processed : BOOLEAN, device : Devices,
            images : 0..MaxImages, blurred : BOOLEAN] :
        s.blurred => s.images > 0}

NoRequest == [view |-> None, method |-> None, device |-> None, id |-> 0,
              pc |-> "new", session |-> 0, result |-> None, touched |-> {}]

\* urls.py: '' (ImageUploadView), upload/<id>, process_images/<id>,
\* download-image/<id>.
Views == {"image", "upload-view", "process-images", "download-image"}

\* ImageSession.objects.filter(processed=False, device=device).
Unprocessed(device) ==
    {i \in SessionIds : sessions[i].exists /\ ~sessions[i].processed
                        /\ sessions[i].device = device}

\* ImageSession.objects.filter(processed=False, id=id).
UnprocessedById(id) ==
    {i \in SessionIds : sessions[i].exists /\ ~sessions[i].processed /\ i = id}

\* ImageSession.objects.filter(id=id).
ById(id) == {i \in SessionIds : sessions[i].exists /\ i = id}

Respond(r, result, touched) ==
    reqs' = [reqs EXCEPT ![r].pc = "done", ![r].result = result,
                         ![r].touched = @ \cup touched]

\* A request arrives: the view its URL names, its method, the device cookie
\* it carries and the id in its URL.
Receive(r) ==
    /\ reqs[r].pc = "new"
    /\ \E view \in Views, method \in {"GET", "POST"}, device \in Devices,
          id \in SessionIds :
          reqs' = [reqs EXCEPT ![r] = [NoRequest EXCEPT
                       !.view = view, !.method = method, !.device = device,
                       !.id = id, !.pc = "run"]]
    /\ UNCHANGED sessions
    /\ lprFrame

Serving(r, view, method) ==
    /\ reqs[r].pc = "run"
    /\ reqs[r].view = view
    /\ reqs[r].method = method

\* views.py:20-35: the images of an unprocessed session of the device are
\* deleted and a new session is created for the device.
ImageUploadGet(r) ==
    /\ Serving(r, "image", "GET")
    /\ \E new \in SessionIds :
          /\ ~sessions[new].exists
          /\ \A i \in SessionIds : i < new => sessions[i].exists
          /\ LET created == [NoSession EXCEPT !.exists = TRUE,
                                              !.device = reqs[r].device]
             IN  IF Unprocessed(reqs[r].device) = {}
                 THEN /\ sessions' = [sessions EXCEPT ![new] = created]
                      /\ Respond(r, "image_upload.html", {<<new, "create">>})
                 ELSE \E old \in Unprocessed(reqs[r].device) :
                        /\ sessions' = [sessions EXCEPT
                                          ![old].images = 0,
                                          ![old].blurred = FALSE,
                                          ![new] = created]
                        /\ Respond(r, "image_upload.html",
                                   {<<old, "delete">>, <<new, "create">>})
    /\ lprFrame

\* views.py:36-51 and 154-169: the images of the device's unprocessed
\* session are run through process_image.  Without images ImageUploadView
\* renders the upload page again and process_images returns nothing.
ProcessSession(r, empty_result) ==
    IF Unprocessed(reqs[r].device) = {}
    THEN Respond(r, "IndexError", {}) /\ UNCHANGED sessions
    ELSE \E s \in Unprocessed(reqs[r].device) :
           IF sessions[s].images <= 0
           THEN Respond(r, empty_result, {}) /\ UNCHANGED sessions
           ELSE /\ sessions' = [sessions EXCEPT ![s].blurred = TRUE]
                /\ Respond(r, "download.html", {<<s, "process">>})

ImageUploadPost(r) ==
    /\ Serving(r, "image", "POST")
    /\ ProcessSession(r, "image_upload.html")
    /\ lprFrame

\* views.py:104-116.
FileUpload(r) ==
    /\ reqs[r].pc = "run"
    /\ reqs[r].view = "upload-view"
    /\ IF reqs[r].method # "POST"
       THEN Respond(r, "json", {}) /\ UNCHANGED sessions
       ELSE IF Unprocessed(reqs[r].device) = {}
       THEN Respond(r, "IndexError", {}) /\ UNCHANGED sessions
       ELSE \E s \in Unprocessed(reqs[r].device) :
              /\ sessions[s].images < MaxImages
              /\ sessions' = [sessions EXCEPT ![s].images = @ + 1,
                                              ![s].blurred = FALSE]
              /\ Respond(r, "json", {<<s, "add">>})
    /\ lprFrame

\* views.py:154-172.
ProcessImages(r) ==
    /\ reqs[r].pc = "run"
    /\ reqs[r].view = "process-images"
    /\ IF reqs[r].method = "POST"
       THEN ProcessSession(r, "no response")
       ELSE /\ Respond(r, IF ById(reqs[r].id) = {} THEN "IndexError"
                          ELSE "download.html", {})
            /\ UNCHANGED sessions
    /\ lprFrame

\* views.py:210-212 and 235: the download view looks the session up, by id
\* and unprocessed for POST, by id alone for GET.  POST turns every
\* exception into Http404 (views.py:230-231).
DownloadQuery(r) ==
    /\ reqs[r].pc = "run"
    /\ reqs[r].view = "download-image"
    /\ LET found == IF reqs[r].method = "POST"
                    THEN UnprocessedById(reqs[r].id)
                    ELSE ById(reqs[r].id)
       IN  IF found = {}
           THEN Respond(r, IF reqs[r].method = "POST" THEN "Http404"
                           ELSE "IndexError", {})
           ELSE \E s \in found :
                  reqs' = [reqs EXCEPT ![r].pc = "zip", ![r].session = s]
    /\ UNCHANGED sessions
    /\ lprFrame

\* views.py:213-229 and 236-255: the images are zipped (a file that is
\* not there raises), the session is saved as processed and the zip is the
\* response.
DownloadSave(r) ==
    /\ reqs[r].pc = "zip"
    /\ \E files \in BOOLEAN :
          IF ~files /\ sessions[reqs[r].session].images > 0
          THEN /\ Respond(r, IF reqs[r].method = "POST" THEN "Http404"
                             ELSE "OSError", {})
               /\ UNCHANGED sessions
          ELSE /\ sessions' = [sessions EXCEPT
                                 ![reqs[r].session].processed = TRUE]
               /\ Respond(r, "zip", {<<reqs[r].session, "download">>,
                                     <<reqs[r].session, "processed">>})
    /\ lprFrame

\* No request is being served, no session is stored.
LprIdle ==
    /\ sessions = [i \in SessionIds |-> NoSession]
    /\ reqs = [r \in Requests |-> NoRequest]

(***************************************************************************)
(* process_video (lprApp/yolo_object_detection/yolo_video.py): the frame   *)
(* loop between the capture and the writer.                                *)
(***************************************************************************)
\* The longest video in frames.
MaxFrames == 3

\* What a frame shows.
Pictures == {"x", "y", "z"}

RECURSIVE SeqsUpTo(_, _)
SeqsUpTo(S, n) ==
    IF n = 0 THEN {<<>>}
    ELSE LET shorter == SeqsUpTo(S, n - 1)
         IN  shorter \cup {Append(q, e) : q \in shorter, e \in S}

Videos == SeqsUpTo(Pictures, MaxFrames)

\* yolo_video.py:70-72.  `created` counts the cv2.VideoWriter objects made;
\* `writer is None` is created = 0.
NoCapture == [opened |-> FALSE, pos |-> 0, released |-> FALSE]
NoWriter == [created |-> 0, frames |-> <<>>, released |-> FALSE]
NoFrame == [picture |-> None, blurred |-> FALSE]

\* No video is being processed.
VideoIdle ==
    /\ input = <<>>
    /\ vs = NoCapture
    /\ writer = NoWriter
    /\ grabbed = FALSE
    /\ frame = NoFrame
    /\ vpc = "done"
    /\ vresult = "none"

\* cv2.VideoCapture.read(): the next frame, or (False, None) at the end of
\* the stream and on a capture that could not open its file.
Read(capture, video) ==
    IF capture.opened /\ capture.pos < Len(video)
    THEN [grabbed |-> TRUE,
          frame |-> [picture |-> video[capture.pos + 1], blurred |-> FALSE]]
    ELSE [grabbed |-> FALSE, frame |-> NoFrame]

\* yolo_video.py:89-96: read the next frame, leave the loop when none was
\* grabbed.
ReadFrame ==
    /\ vpc = "read"
    /\ LET r == Read(vs, input)
       IN  /\ grabbed' = r.grabbed
           /\ frame' = r.frame
           /\ vs' = IF r.grabbed THEN [vs EXCEPT !.pos = @ + 1] ELSE vs
           /\ vpc' = IF r.grabbed THEN "detect" ELSE "release_writer"
    /\ UNCHANGED <<input, writer, vresult>>
    /\ videoFrame

\* yolo_video.py:98-172: the detector finds plates in the frame or not; the
\* boxes it finds are blurred in place.
DetectAndBlur ==
    /\ vpc = "detect"
    /\ \E plates \in BOOLEAN : frame' = [frame EXCEPT !.blurred = plates]
    /\ vpc' = "writer"
    /\ UNCHANGED <<input, vs, writer, grabbed, vresult>>
    /\ videoFrame

\* yolo_video.py:175-179: `if writer is None:` make the writer.
InitWriter(w) ==
    IF w.created = 0 THEN [w EXCEPT !.created = 1] ELSE w

\* yolo_video.py:174-189: make the writer if there is none, write the frame.
WriteFrame ==
    /\ vpc = "writer"
    /\ writer' = [InitWriter(writer) EXCEPT !.frames = Append(@, frame)]
    /\ vpc' = "read"
    /\ UNCHANGED <<input, vs, grabbed, frame, vresult>>
    /\ videoFrame

\* yolo_video.py:193: writer.release(); None has no release().
ReleaseWriter ==
    /\ vpc = "release_writer"
    /\ IF writer.created = 0
       THEN /\ vresult' = "AttributeError"
            /\ vpc' = "done"
            /\ UNCHANGED writer
       ELSE /\ writer' = [writer EXCEPT !.released = TRUE]
            /\ vpc' = "release_capture"
            /\ UNCHANGED vresult
    /\ UNCHANGED <<input, vs, grabbed, frame>>
    /\ videoFrame

\* yolo_video.py:194: vs.release().
ReleaseCapture ==
    /\ vpc = "release_capture"
    /\ vs' = [vs EXCEPT !.released = TRUE]
    /\ vpc' = "save"
    /\ UNCHANGED <<input, writer, grabbed, frame, vresult>>
    /\ videoFrame

\* yolo_video.py:196-199: the result file is saved to the video's upload.
SaveResult ==
    /\ vpc = "save"
    /\ vresult' = "saved"
    /\ vpc' = "done"
    /\ UNCHANGED <<input, vs, writer, grabbed, frame>>
    /\ videoFrame

\* script.py:202-204: every command constructs its own YoloClient, runs and
\* exits.  The stack it names may be in any state, the bucket may exist or not.
Init ==
    /\ stack \in InitialStackStates
    /\ pc = "idle"
    /\ args = NoArgs
    /\ loc = NoLocals
    /\ called = {}
    /\ waiter = NoWaiter
    /\ outcome = "none"
    /\ contextSet = FALSE
    /\ changeSets = 0
    /\ bucket \in BOOLEAN
    /\ fn = NoFn
    /\ alias = NoVersion
    /\ ssm = [latest |-> {}, copied |-> {}]
    /\ LambdaIdle
    /\ LprIdle
    /\ VideoIdle

Next ==
    \/ CFProgress
    \/ CFForget
    \/ OperatorActs
    \/ DeployInfra
    \/ SetUpContext
    \/ EnsureBucket
    \/ UploadTemplates
    \/ DryStackExists
    \/ DryCreateChangeSet
    \/ DryDescribe
    \/ DryDeleteChangeSet
    \/ DoStackExists
    \/ RecreateCheck
    \/ DeleteStack
    \/ CreateStack
    \/ UpdateProtect
    \/ UpdateStack
    \/ WaiterPoll
    \/ ReportStackFailure

vars == <<infraVars, lambdaVars, appVars>>

Spec == Init /\ [][Next]_vars

\* Deployments of the service's Lambda function, each started once, against
\* whatever the function, its alias and the parameters are at the time.
InitLambda ==
    /\ fn \in FunctionStates
    /\ alias \in {NoVersion} \cup {VersionString(v) : v \in fn.versions}
    /\ ssm \in [latest : SUBSET ParamNames, copied : {{}}]
    /\ LambdaIdle
    /\ stack = NoStack
    /\ pc = "idle"
    /\ args = NoArgs
    /\ loc = NoLocals
    /\ called = {}
    /\ waiter = NoWaiter
    /\ outcome = "none"
    /\ contextSet = FALSE
    /\ changeSets = 0
    /\ bucket \in BOOLEAN
    /\ LprIdle
    /\ VideoIdle

NextLambda ==
    \/ \E d \in Deployers : DeployLambda(d)
    \/ \E d \in Deployers : LambdaSetUp(d)
    \/ \E d \in Deployers : LoadCode(d)
    \/ \E d \in Deployers : ListVersions(d)
    \/ \E d \in Deployers : CopySsmParameters(d)
    \/ \E d \in Deployers : GetFunction(d)
    \/ \E d \in Deployers : CreateFunction(d)
    \/ \E d \in Deployers : UpdateFunctionCode(d)
    \/ \E d \in Deployers : UpdateFunctionConfiguration(d)
    \/ \E d \in Deployers : PublishVersion(d)
    \/ \E d \in Deployers : CheckVersion(d)
    \/ \E d \in Deployers : GetAlias(d)
    \/ \E d \in Deployers : CreateAlias(d)
    \/ \E d \in Deployers : UpdateAlias(d)

SpecLambda == InitLambda /\ [][NextLambda]_vars

\* The lpr server with sessions of any kind in its database, answering
\* requests.
InitLpr ==
    /\ sessions \in [SessionIds -> SessionStates]
    /\ reqs = [r \in Requests |-> NoRequest]
    /\ VideoIdle
    /\ fn = NoFn
    /\ alias = NoVersion
    /\ ssm = [latest |-> {}, copied |-> {}]
    /\ LambdaIdle
    /\ stack = NoStack
    /\ pc = "idle"
    /\ args = NoArgs
    /\ loc = NoLocals
    /\ called = {}
    /\ waiter = NoWaiter
    /\ outcome = "none"
    /\ contextSet = FALSE
    /\ changeSets = 0
    /\ bucket = FALSE

NextLpr ==
    \/ \E r \in Requests : Receive(r)
    \/ \E r \in Requests : ImageUploadGet(r)
    \/ \E r \in Requests : ImageUploadPost(r)
    \/ \E r \in Requests : FileUpload(r)
    \/ \E r \in Requests : ProcessImages(r)
    \/ \E r \in Requests : DownloadQuery(r)
    \/ \E r \in Requests : DownloadSave(r)

SpecLpr == InitLpr /\ [][NextLpr]_vars

\* yolo_video.py:68-72: process_video has opened the capture on a video file
\* of any length, which cv2 could open or not; there is no writer yet.
InitVideo ==
    /\ input \in Videos
    /\ vs \in [opened : BOOLEAN, pos : {0}, released : {FALSE}]
    /\ writer = NoWriter
    /\ grabbed = FALSE
    /\ frame = NoFrame
    /\ vpc = "read"
    /\ vresult = "none"
    /\ LprIdle
    /\ fn = NoFn
    /\ alias = NoVersion
    /\ ssm = [latest |-> {}, copied |-> {}]
    /\ LambdaIdle
    /\ stack = NoStack
    /\ pc = "idle"
    /\ args = NoArgs
    /\ loc = NoLocals
    /\ called = {}
    /\ waiter = NoWaiter
    /\ outcome = "none"
    /\ contextSet = FALSE
    /\ changeSets = 0
    /\ bucket = FALSE

NextVideo ==
    \/ ReadFrame
    \/ DetectAndBlur
    \/ WriteFrame
    \/ ReleaseWriter
    \/ ReleaseCapture
    \/ SaveResult

SpecVideo == InitVideo /\ [][NextVideo]_vars



(***************************************************************************)
(* Properties of the waiter.                                               *)
(***************************************************************************)
InProgressStatuses ==
    {CREATE_IN_PROGRESS, ROLLBACK_IN_PROGRESS, UPDATE_IN_PROGRESS, UPDATE_CLEANUP,
     UPDATE_ROLLBACK_IN_PROGRESS, DELETE_IN_PROGRESS}

TargetOf(type) ==
    CASE type = "stack_create_complete" -> <<"CREATE", "COMPLETE">>
      [] type = "stack_update_complete" -> <<"UPDATE", "COMPLETE">>
      [] type = "stack_delete_complete" -> <<"DELETE", "COMPLETE">>

\* C1: wait() terminates: every iteration raises `tries` by one and tries
\* never passes 121; describe_stacks is called at most 120 times, and the
\* iteration after 120 polls that all saw a status in progress raises
\* RuntimeError without another describe_stacks.
C1_WaiterTerminates ==
    /\ [](waiter.polls <= 120 /\ waiter.tries <= 121)
    /\ [](waiter.result = "RuntimeError" => waiter.polls = 120 /\ outcome = "RuntimeError")
    /\ [][(waiter.result = "waiting" /\ waiter' # waiter) =>
            /\ waiter'.tries = waiter.tries + 1
            /\ waiter'.type = waiter.type
            /\ (waiter.polls = 120 =>
                    /\ waiter'.result = "RuntimeError"
                    /\ waiter'.polls = 120)
            /\ (waiter.polls < 120 => waiter'.polls = waiter.polls + 1)]_vars

C1_Witness ==
    /\ waiter.result = "RuntimeError"
    /\ waiter.polls = 120
    /\ pc = "done"
    /\ outcome = "RuntimeError"

\* C2: wait() returns normally only when the last describe_stacks reported
\* the target status of the waiter type, or when the delete waiter was told
\* that the stack does not exist; a create or update waiter re-raises that
\* error.
C2_WaiterReturnsOnlyOnTarget ==
    /\ waiter.result = "returned" =>
          \/ waiter.last.ok /\ waiter.last.status = TargetOf(waiter.type)
          \/ /\ waiter.type = "stack_delete_complete"
             /\ ~waiter.last.ok
             /\ {"ValidationError", "does not exist"} \subseteq waiter.last.err
    /\ ( /\ waiter.type \in {"stack_create_complete", "stack_update_complete"}
         /\ waiter.polls > 0
         /\ waiter.result \notin {"waiting", "RuntimeError"}
         /\ ~waiter.last.ok ) =>
          waiter.result = "ClientError" /\ pc = "done" /\ outcome # "ok"

C2_Witness ==
    /\ waiter.result = "returned"
    /\ waiter.type = "stack_delete_complete"
    /\ waiter.last.err = ErrNotExist

\* C3: a poll that reports a status which is neither the target nor in
\* progress raises CloudFormationError naming that status, and the waiter
\* polls no more.
C3_UnexpectedStatusRaises ==
    /\ [](waiter.result = "CloudFormationError" =>
            /\ waiter.last.ok
            /\ waiter.last.status # TargetOf(waiter.type)
            /\ waiter.last.status \notin InProgressStatuses)
    /\ [][( /\ waiter.result = "waiting"
            /\ waiter'.polls = waiter.polls + 1
            /\ waiter'.result # "ClientError"
            /\ stack.exists
            /\ stack.status # TargetOf(waiter.type)
            /\ stack.status \notin InProgressStatuses ) =>
            /\ waiter'.result = "CloudFormationError"
            /\ waiter'.last.status = stack.status]_vars
    /\ [][waiter.result = "CloudFormationError" => waiter' = waiter]_vars

C3_Witness ==
    /\ waiter.result = "CloudFormationError"
    /\ waiter.type = "stack_create_complete"
    /\ waiter.last.status = <<"UPDATE", "COMPLETE">>
    /\ waiter.polls > 1


(***************************************************************************)
(* Properties of deploy_infra.                                             *)
(***************************************************************************)
\* stack_exists found the stack, and found it protected, before a recreate.
RecreateOfProtected ==
    /\ loc.recreate
    /\ loc.details.exists
    /\ loc.details.termProt \/ loc.details.protTag

\* C4: a recreate of a stack that stack_exists found protected (termination
\* protection or the yolo:Protected tag) ends in YoloError without ever
\* calling delete_stack or create_stack; when only the tag protected it,
\* update_termination_protection has been issued by then.
C4_ProtectedStackNotRecreated ==
    RecreateOfProtected =>
        /\ "delete_stack" \notin called
        /\ "create_stack" \notin called
        /\ pc \in {"recreate_check", "done"}
        /\ pc = "done" => outcome = "YoloError"
        /\ (pc = "done" /\ ~loc.details.termProt) =>
              "update_termination_protection" \in called
        /\ (pc = "done" /\ loc.details.termProt) =>
              "update_termination_protection" \notin called

C4_Witness ==
    /\ RecreateOfProtected
    /\ ~loc.details.termProt
    /\ pc = "done"
    /\ outcome = "YoloError"
    /\ "update_termination_protection" \in called
    /\ stack.termProt

\* C5: a call with protected=True and dry_run=False that finishes without
\* raising leaves the stack with termination protection enabled.
C5_ProtectedMeansTerminationProtection ==
    (pc = "done" /\ outcome = "ok" /\ loc.protected /\ ~args.dry_run) =>
        stack.exists /\ stack.termProt

MutatingCalls ==
    {"create_stack", "update_stack", "delete_stack", "update_termination_protection"}

\* C6: with dry_run=True none of create_stack, update_stack, delete_stack
\* and update_termination_protection is ever called and no step of the
\* client changes the stack; when stack_exists answers that there is no
\* stack the call raises YoloError and no change set has been created.
C6_DryRunChangesNothing ==
    /\ [](args.dry_run => called \cap MutatingCalls = {})
    /\ [][(args'.dry_run /\ (pc' # pc \/ called' # called)) => stack' = stack]_vars
    /\ [][(pc = "dry_exists" /\ pc' # pc /\ ~stack.exists /\ outcome' # "ClientError") =>
            /\ pc' = "done"
            /\ outcome' = "YoloError"]_vars
    /\ []((args.dry_run /\ "create_change_set" \notin called) => changeSets = 0)
    /\ []((args.dry_run /\ pc = "done" /\ outcome = "YoloError") =>
            "create_change_set" \notin called)

C6_Witness ==
    /\ args.dry_run
    /\ pc = "done"
    /\ outcome = "ok"
    /\ "create_change_set" \in called
    /\ "delete_change_set" \in called
    /\ changeSets = 0

\* C7: deploy_infra given both a stage and an account, or neither, raises
\* YoloError before the context is set up and before any AWS call.
C7_ExactlyOneOfStageAndAccount ==
    (pc # "idle" /\ ((args.stage = None) = (args.account = None))) =>
        /\ pc = "done"
        /\ outcome = "YoloError"
        /\ called = {}
        /\ ~contextSet

C7_Witness ==
    /\ pc = "done"
    /\ args.stage # None
    /\ args.account # None
    /\ outcome = "YoloError"

\* C8: deploy_infra for an account with recreate=True raises YoloError
\* before any AWS call; every other account deployment runs _deploy_stack
\* with protected=True and recreate=False and never calls delete_stack.
C8_AccountStackNeverDeleted ==
    (pc # "idle" /\ args.account # None) =>
        /\ "delete_stack" \notin called
        /\ pc \notin {"recreate_check", "delete"}
        /\ args.recreate =>
              pc = "done" /\ outcome = "YoloError" /\ called = {} /\ ~contextSet
        /\ (args.stage = None /\ contextSet) => (loc.protected /\ ~loc.recreate)

C8_Witness ==
    /\ args.account # None
    /\ args.stage = None
    /\ pc = "done"
    /\ outcome = "ok"
    /\ "update_stack" \in called
    /\ loc.protected
    /\ stack.termProt


(***************************************************************************)
(* Properties of the error handling of _do_create_or_update_stack.         *)
(***************************************************************************)
\* The waiter gave up on the stack and the command has ended.
WaiterFailed == pc = "done" /\ waiter.result = "CloudFormationError"

\* What the except clauses make of a ClientError that is not 'No updates
\* are to be performed'.
ReRaised ==
    loc.caught # {} /\ "No updates are to be performed" \notin loc.caught =>
      /\ outcome = "YoloError"
      /\ loc.message = IF "TerminationProtection is enabled" \in loc.caught
                       THEN MsgStackProtected ELSE MsgClientError

\* The reason of the first of the events that has one.
RECURSIVE FirstReason(_)
FirstReason(events) ==
    IF events = <<>> THEN "unknown"
    ELSE IF Head(events).ResourceStatusReason # None
    THEN Head(events).ResourceStatusReason
    ELSE FirstReason(Tail(events))

OneSource(a) ==
    (a.version = None /\ a.from_local) \/ (a.version # None /\ ~a.from_local)

\* The calls a deployment makes to Lambda and SSM.
LambdaSsmCalls ==
    {"list_versions_by_function", "get_parameters_by_path", "put_parameter",
     "get_function", "create_function", "update_function_code",
     "update_function_configuration", "publish_version", "get_alias",
     "create_alias", "update_alias"}

\* C9: deploy_lambda called with neither or both of version and from_local
\* raises YoloError at once: the context is not set up, the bucket is not
\* ensured, no call reaches Lambda or SSM and nothing they hold changes.
\* Called with exactly one, it goes on, and the code it deploys is the local
\* zip when from_local is set and the pushed build of that version when not.
C9_ExactlyOneOfVersionAndFromLocal ==
    /\ [](\A d \in Deployers :
            lpc[d] # "idle" =>
              IF ~OneSource(largs[d])
              THEN /\ lpc[d] = "done"
                   /\ lout[d].result = "YoloError"
                   /\ lout[d].message \in {MsgNeither, MsgBoth}
                   /\ lcalled[d] = {}
                   /\ ~lloc[d].context
                   /\ lloc[d].code_config = NoCode
              ELSE /\ lout[d].message \notin {MsgNeither, MsgBoth}
                   /\ lcalled[d] \cap LambdaSsmCalls # {} =>
                        lloc[d].code_config =
                            IF largs[d].from_local
                            THEN [source |-> "ZipFile", version |-> None]
                            ELSE [source |-> "S3", version |-> largs[d].version])
    /\ [][\A d \in Deployers :
            lpc[d] = "idle" /\ lpc'[d] # "idle" =>
              /\ <<fn, alias, ssm, bucket>>' = <<fn, alias, ssm, bucket>>
              /\ OneSource(largs'[d]) => lpc'[d] = "context" /\ lout'[d] = NoOutcome]_vars

\* One deployment was refused for naming both a version and --from-local,
\* another deployed the local zip to the end.
C9_Witness ==
    \E d, e \in Deployers :
       /\ lout[d] = [result |-> "YoloError", message |-> MsgBoth]
       /\ lcalled[d] = {}
       /\ lout[e].result = "ok"
       /\ largs[e].from_local
       /\ lloc[e].code_config.source = "ZipFile"
       /\ "update_function_code" \in lcalled[e]

\* What the next version number of a function is, from the versions it has.
PredictedVersion(f) ==
    IF ~f.exists \/ f.versions = {} THEN 1
    ELSE (CHOOSE m \in f.versions : \A v \in f.versions : v <= m) + 1

\* C10: _create_or_update_lambda_function predicts 1 for a function without
\* numbered versions and the highest numbered version plus 1 otherwise; it
\* returns the version Lambda published only when that equals the
\* prediction, and raises YoloError 'Invalid deployed function version!'
\* when it differs.
C10_ReturnsOnlyPredictedVersion ==
    /\ [](\A d \in Deployers :
            /\ lloc[d].returned # NoVersion =>
                 /\ lloc[d].returned = lloc[d].fn_version
                 /\ ParseInt(lloc[d].returned) = lloc[d].next_fn_version
                 /\ ParseInt(lloc[d].returned) \in fn.versions
            /\ lout[d].message = MsgInvalid =>
                 /\ lout[d].result = "YoloError"
                 /\ lloc[d].returned = NoVersion
                 /\ ParseInt(lloc[d].fn_version) # lloc[d].next_fn_version
            /\ lpc[d] \in {"alias", "create_alias", "update_alias"} =>
                 lloc[d].returned # NoVersion)
    /\ [][\A d \in Deployers :
            /\ lpc[d] = "list" /\ lpc'[d] # "list" =>
                 lloc'[d].next_fn_version = PredictedVersion(fn)
            /\ lpc[d] = "check" /\ lpc'[d] # "check" =>
                 IF ParseInt(lloc[d].fn_version) = lloc[d].next_fn_version
                 THEN lloc'[d].returned = lloc[d].fn_version /\ lpc'[d] = "alias"
                 ELSE lout'[d] = [result |-> "YoloError", message |-> MsgInvalid]]_vars

\* Two deployments predicted the version after a gap in the numbering; one
\* got it and returned it, the other was published under the next number
\* and raised.
C10_Witness ==
    \E d, e \in Deployers :
       /\ lout[d].result = "ok"
       /\ ParseInt(lloc[d].returned) = MaxVersion + 1
       /\ 1 \notin fn.versions
       /\ lloc[e].next_fn_version = MaxVersion + 1
       /\ lout[e] = [result |-> "YoloError", message |-> MsgInvalid]
       /\ ParseInt(lloc[e].fn_version) = MaxVersion + 2

\* The calls of a deployment that write to SSM, the function or its alias.
WritingCalls ==
    {"put_parameter", "create_function", "update_function_code",
     "update_function_configuration", "publish_version", "create_alias",
     "update_alias"}

\* The parameters the build's yolo file names that SSM lacks under
\* /<service>/<stage>/latest/.
Lacking(d) ==
    IF lloc[d].parameters.defined
    THEN lloc[d].parameters.names \ ssm.latest
    ELSE {}

\* C11: when the build's yolo file names a parameter for the stage that SSM
\* does not hold under /<service>/<stage>/latest/, the deployment raises
\* YoloError naming exactly the missing parameters; it has written no SSM
\* parameter, has not created the function, updated its code or
\* configuration, published a version or touched an alias, and SSM, the
\* function and the alias are as they were.
C11_MissingParametersStopDeployment ==
    /\ [](\A d \in Deployers :
            /\ Lacking(d) # {} =>
                 /\ lcalled[d] \cap WritingCalls = {}
                 /\ lout[d].result # "ok"
                 /\ lpc[d] \in {"list", "ssm", "done"}
            /\ lout[d].message = MsgMissing =>
                 /\ lout[d].result = "YoloError"
                 /\ lloc[d].missing_params = Lacking(d)
                 /\ lloc[d].missing_params # {}
                 /\ lcalled[d] \cap WritingCalls = {})
    /\ [][\A d \in Deployers :
            lpc[d] = "ssm" /\ lpc'[d] # "ssm" /\ Lacking(d) # {} =>
              /\ lout'[d] = [result |-> "YoloError", message |-> MsgMissing]
              /\ lloc'[d].missing_params = Lacking(d)
              /\ <<fn, alias, ssm>>' = <<fn, alias, ssm>>]_vars

\* A deployment was stopped for the one parameter its yolo file names,
\* after it had read the parameters SSM holds.
C11_Witness ==
    \E d \in Deployers :
       /\ lout[d] = [result |-> "YoloError", message |-> MsgMissing]
       /\ lloc[d].missing_params = {"p"}
       /\ "get_parameters_by_path" \in lcalled[d]
       /\ lloc[d].next_fn_version > 1


\* Two deployments that listed the function's versions before either
\* published: both predict the same next version.
Racing(d, e) ==
    /\ d # e
    /\ lloc[d].next_fn_version > 0
    /\ lloc[d].next_fn_version = lloc[e].next_fn_version

AliasCalls == {"get_alias", "create_alias", "update_alias"}

\* C13: of two deployments of the function that predicted the same next
\* version, at most one returns from _create_or_update_lambda_function; one
\* that did not return has raised YoloError or the client's error and has
\* made no call on the stage's alias.
C13_RacingDeploymentsOneWinner ==
    \A d, e \in Deployers :
       Racing(d, e) =>
         /\ ~(lloc[d].returned # NoVersion /\ lloc[e].returned # NoVersion)
         /\ lpc[d] = "done" /\ lloc[d].returned = NoVersion =>
              /\ lout[d].result \in {"YoloError", "ClientError"}
              /\ lcalled[d] \cap AliasCalls = {}

\* Every parameter SSM holds under /<service>/<stage>/latest/ has a copy
\* under /<service>/<stage>/<version>/.
AllCopied(version) ==
    \A name \in ssm.latest : <<SERVICE, STAGE, version, name>> \in ssm.copied

\* C15: when a deployment returns version v, the configuration it sent to
\* Lambda carries SSM_CONFIG_VERSION = '/<service>/<stage>/<v>/', and when
\* the yolo file defines parameters every parameter under
\* /<service>/<stage>/latest/, on whatever page SSM returned it, was copied
\* to /<service>/<stage>/<v>/ before create_function or update_function_code.
C15_ConfigVersionSetAndParametersCopied ==
    /\ [](\A d \in Deployers :
            /\ lloc[d].returned # NoVersion =>
                 /\ lloc[d].sent_env = <<SERVICE, STAGE, lloc[d].returned>>
                 /\ lcalled[d] \cap {"create_function",
                                     "update_function_configuration"} # {}
                 /\ lloc[d].parameters.defined => AllCopied(lloc[d].returned)
            /\ lpc[d] \in {"create", "code"} /\ lloc[d].parameters.defined =>
                 AllCopied(VersionString(lloc[d].next_fn_version)))
    /\ [][\A d \in Deployers :
            lloc[d].sent_env # lloc'[d].sent_env =>
              /\ lloc'[d].sent_env =
                   <<SERVICE, STAGE, VersionString(lloc[d].next_fn_version)>>
              /\ lloc[d].parameters.defined =>
                   AllCopied(VersionString(lloc[d].next_fn_version))]_vars

\* A deployment returned version MaxVersion + 1 after copying two
\* parameters, which SSM returned on two pages.
C15_Witness ==
    \E d \in Deployers :
       /\ lloc[d].returned = VersionString(MaxVersion + 1)
       /\ lloc[d].parameters.defined
       /\ ssm.latest = ParamNames
       /\ Cardinality(ssm.latest) > Min(MaxResults, SsmPageCap)
       /\ AllCopied(lloc[d].returned)
       /\ "put_parameter" \in lcalled[d]


(***************************************************************************)
(* Properties of the lpr views.                                            *)
(***************************************************************************)
\* The requests that were answered with the zip of a session.
Downloaded(r) ==
    /\ reqs[r].view = "download-image"
    /\ reqs[r].pc = "done"
    /\ reqs[r].result = "zip"

\* C12: a download that succeeds, by GET or POST, leaves the session marked
\* processed; a POST download answers Http404 and not a zip when it fails;
\* and no two POST downloads of the same session both succeed.
C12_PostDownloadOnlyOnce ==
    /\ \A r \in Requests :
          /\ Downloaded(r) => sessions[reqs[r].session].processed
          /\ reqs[r].view = "download-image" /\ reqs[r].method = "POST"
             /\ reqs[r].pc = "done" =>
                reqs[r].result \in {"zip", "Http404"}
    /\ \A r1, r2 \in Requests :
          Downloaded(r1) /\ Downloaded(r2) /\ r1 # r2
          /\ reqs[r1].method = "POST" /\ reqs[r2].method = "POST" =>
             reqs[r1].session # reqs[r2].session

\* What a request can do to a session that device isolation is about.
IsolatedOps == {"add", "delete", "process", "download", "processed"}

\* C16: every session a request has added an image to, deleted the images
\* of, processed, downloaded or marked as processed belongs to the device
\* whose cookie the request carries, whatever id its URL names.
C16_SessionsIsolatedPerDevice ==
    \A r \in Requests :
       \A t \in reqs[r].touched :
          t[2] \in IsolatedOps => sessions[t[1]].device = reqs[r].device


(***************************************************************************)
(* Properties of process_video.                                            *)
(***************************************************************************)
\* The pictures of the frames written, in the order written.
Written == [i \in 1..Len(writer.frames) |-> writer.frames[i].picture]

\* Every frame read so far, but the one in hand, is written once and in
\* input order; the writer was made once, for the first frame.
WrittenAsRead ==
    /\ writer.created = (IF writer.frames = <<>> THEN 0 ELSE 1)
    /\ Written = SubSeq(input, 1,
                         IF vpc \in {"detect", "writer"} THEN vs.pos - 1
                         ELSE vs.pos)

\* C17: process_video reads frames until none is grabbed, writes every
\* frame read once and in input order to a writer made once on the first
\* frame, and once the loop has ended releases the writer and the capture,
\* for a video of any number of frames.
C17_FramesWrittenOnceThenReleased ==
    /\ WrittenAsRead
    /\ vpc \in {"release_writer", "release_capture", "save", "done"} =>
         /\ ~grabbed
         /\ vs.opened => Written = input
    /\ vpc = "done" => writer.released /\ vs.released

====
